---- MODULE Spec2Model ----
(***************************************************************************)
(* Model of src/chaudiere_rendement.py: the boiler efficiency calculator   *)
(* CalculateurRendementChaudiere and its four operations.                  *)
(*                                                                         *)
(* Numbers are exact rationals <<numerator, denominator>> in lowest terms  *)
(* with a positive denominator: Python's float arithmetic is modelled by   *)
(* the real arithmetic it approximates, the float literals of the source   *)
(* (35.17, 0.66, 3.6, ...) by the decimal fractions they are written as.   *)
(* A division by zero raises ZeroDivisionError, as Python's / does.        *)
(*                                                                         *)
(* An outcome of a call is either Ok(v), a returned value, or Leve(t, m),  *)
(* an exception of type t with message m that propagated to the caller.    *)
(* Formatted text (f-strings) is a sequence of pieces; a formatted float   *)
(* is its decimal expansion [entier, decimales].                           *)
(***************************************************************************)
EXTENDS Integers, Sequences, FiniteSets, TLC

VARIABLES nom_combustible, appel, resultat, memo

vars == <<nom_combustible, appel, resultat, memo>>

----------------------------------------------------------------------------
(* Rational arithmetic *)

Abs(n) == IF n < 0 THEN -n ELSE n

RECURSIVE GCD(_, _)
GCD(a, b) == IF b = 0 THEN a ELSE GCD(b, a % b)

\* The rational n/d (d # 0) in lowest terms with a positive denominator.
R(n, d) ==
    LET g == GCD(Abs(n), Abs(d))
        s == IF d < 0 THEN -1 ELSE 1
    IN  <<(s * n) \div g, (s * d) \div g>>

Entier(n) == R(n, 1)

RAdd(a, b) == R(a[1] * b[2] + b[1] * a[2], a[2] * b[2])
RSub(a, b) == R(a[1] * b[2] - b[1] * a[2], a[2] * b[2])
RMul(a, b) == R(a[1] * b[1], a[2] * b[2])
\* a / b for b # 0 (the callers raise ZeroDivisionError when b = 0)
RDiv(a, b) == R(a[1] * b[2], a[2] * b[1])
RLt(a, b)  == a[1] * b[2] < b[1] * a[2]
RLeq(a, b) == a[1] * b[2] <= b[1] * a[2]
RZero(a)   == a[1] = 0

----------------------------------------------------------------------------
(* Outcomes and Python helpers *)

Ok(v) == [statut |-> "ok", valeur |-> v]
Leve(t, m) == [statut |-> "exception", type |-> t, message |-> m]
EnAttente == [statut |-> "en_attente"]
Aucun == [statut |-> "aucun"]

\* x / y on floats: ZeroDivisionError when y is zero.
Division(x, y) ==
    IF RZero(y) THEN Leve("ZeroDivisionError", <<"float division by zero">>)
    ELSE Ok(RDiv(x, y))

\* str.upper() on the two heating-value keys
Upper(s) == CASE s = "pci" -> "PCI" [] s = "pcs" -> "PCS" [] OTHER -> s

\* The digits after the decimal point of rem/d (0 <= rem < d), at most k.
RECURSIVE Decimales(_, _, _)
Decimales(rem, d, k) ==
    IF rem = 0 \/ k = 0 THEN <<>>
    ELSE <<(rem * 10) \div d>> \o Decimales((rem * 10) % d, d, k - 1)

\* repr() of a non-negative float, as f"{x}" prints it: the integer part, a
\* point, and the decimals (a single 0 when there are none).
ReprFloat(x) ==
    LET dec == Decimales(x[1] % x[2], x[2], 17)
    IN  [entier |-> x[1] \div x[2], decimales |-> IF dec = <<>> THEN <<0>> ELSE dec]

\* dict.get(k, defaut)
Get(kwargs, k, defaut) == IF k \in DOMAIN kwargs THEN kwargs[k] ELSE defaut

----------------------------------------------------------------------------
(* CalculateurRendementChaudiere *)

\* __init__: self.nom_combustible, heating values in MJ per unit
TableCombustibles ==
    [gaz_naturel     |-> [pci |-> R(3517, 100), pcs |-> R(3911, 100)],
     fuel_domestique |-> [pci |-> R(426, 10),   pcs |-> R(454, 10)],
     propane         |-> [pci |-> R(4635, 100), pcs |-> R(5035, 100)],
     bois            |-> [pci |-> R(150, 10),   pcs |-> R(185, 10)]]

\* Variant: the test is "< 0", so that a zero energie_consommee reaches the division.
rendement_direct_strict(self, energie_utile, energie_consommee) ==
    IF RLt(energie_consommee, Entier(0))
    THEN Leve("ValueError", <<"L'energie consommee doit etre positive">>)
    ELSE LET q == Division(energie_utile, energie_consommee)
         IN  IF q.statut = "exception" THEN q ELSE Ok(RMul(q.valeur, Entier(100)))

\* Variant: the percentage is clamped to 100.
rendement_direct_plafonne(self, energie_utile, energie_consommee) ==
    IF RLeq(energie_consommee, Entier(0))
    THEN Leve("ValueError", <<"L'energie consommee doit etre positive">>)
    ELSE LET r == RMul(RDiv(energie_utile, energie_consommee), Entier(100))
         IN  Ok(IF RLt(Entier(100), r) THEN Entier(100) ELSE r)

\* rendement_direct(self, energie_utile, energie_consommee)
rendement_direct(self, energie_utile, energie_consommee) ==
    IF RLeq(energie_consommee, Entier(0))
    THEN Leve("ValueError", <<"L'energie consommee doit etre positive">>)
    ELSE Ok(RMul(RDiv(energie_utile, energie_consommee), Entier(100)))

\* Variant: the two keys exchanged.
CleInversee(utiliser_pci) == IF utiliser_pci THEN "pcs" ELSE "pci"

\* pc_key = 'pci' if utiliser_pci else 'pcs'
ClePouvoirCalorifique(utiliser_pci) == IF utiliser_pci THEN "pci" ELSE "pcs"

\* rendement_par_mesure_directe(self, puissance_utile, consommation_combustible,
\*                              type_combustible, utiliser_pci)
rendement_par_mesure_directe(self, puissance_utile, consommation_combustible, type_combustible, utiliser_pci) ==
    IF type_combustible \notin DOMAIN self
    THEN Leve("ValueError", <<"Combustible non reconnu: ", type_combustible>>)
    ELSE LET pc_key == ClePouvoirCalorifique(utiliser_pci)
             pouvoir_calorifique == self[type_combustible][pc_key]
             puissance_consommee ==
                 RDiv(RMul(consommation_combustible, pouvoir_calorifique), R(36, 10))
             quotient == Division(puissance_utile, puissance_consommee)
         IN  IF quotient.statut = "exception" THEN quotient
             ELSE Ok([rendement |-> RMul(quotient.valeur, Entier(100)),
                      puissance_consommee |-> puissance_consommee,
                      pouvoir_calorifique_utilise |->
                          <<Upper(pc_key), ": ", ReprFloat(pouvoir_calorifique),
                            " MJ/unite">>])

\* Variant: the coefficient table lacks a fuel that nom_combustible has.
CoefficientsSansBois ==
    [gaz_naturel     |-> [A1 |-> R(66, 100), A2 |-> R(9, 1000)],
     fuel_domestique |-> [A1 |-> R(68, 100), A2 |-> R(7, 1000)],
     propane         |-> [A1 |-> R(63, 100), A2 |-> R(8, 1000)]]

\* The local table of Siegert coefficients of rendement_par_pertes
coefficients ==
    [gaz_naturel     |-> [A1 |-> R(66, 100), A2 |-> R(9, 1000)],
     fuel_domestique |-> [A1 |-> R(68, 100), A2 |-> R(7, 1000)],
     propane         |-> [A1 |-> R(63, 100), A2 |-> R(8, 1000)],
     bois            |-> [A1 |-> R(65, 100), A2 |-> R(10, 1000)]]

\* Variant: A2 is not multiplied by delta_t.
pertes_fumees_sans_delta(A1, A2, delta_t, co2_percent) ==
    RAdd(RDiv(RMul(A1, delta_t), co2_percent), A2)

\* pertes_fumees = (A1 * delta_t / co2_percent) + (A2 * delta_t), co2_percent > 0
pertes_fumees(A1, A2, delta_t, co2_percent) ==
    RAdd(RDiv(RMul(A1, delta_t), co2_percent), RMul(A2, delta_t))

\* rendement_par_pertes(self, temp_fumees, temp_air, co2_percent, type_combustible)
rendement_par_pertes(self, temp_fumees, temp_air, co2_percent, type_combustible) ==
    IF type_combustible \notin DOMAIN coefficients
    THEN Leve("ValueError", <<"Combustible non reconnu: ", type_combustible>>)
    ELSE LET A1 == coefficients[type_combustible].A1
             A2 == coefficients[type_combustible].A2
             delta_t == RSub(temp_fumees, temp_air)
         IN  IF RLeq(co2_percent, Entier(0))
             THEN Leve("ValueError", <<"Le taux de CO2 doit etre positif">>)
             ELSE LET pertes == pertes_fumees(A1, A2, delta_t, co2_percent)
                  IN  Ok([rendement |-> RSub(Entier(100), pertes),
                          pertes_fumees |-> pertes,
                          ecart_temperature |-> delta_t,
                          coefficients_utilises |->
                              <<"A1=", ReprFloat(A1), ", A2=", ReprFloat(A2)>>])

\* Variant: a failing method is skipped and the analysis goes on.
AffecteSansPropagation(etat, cle, r) ==
    IF r.statut = "exception" THEN etat ELSE Ok((cle :> r.valeur) @@ etat.valeur)

\* resultats[cle] = <call>: the call's exception propagates, else the entry is set
Affecte(etat, cle, r) ==
    IF r.statut = "exception" THEN r ELSE Ok((cle :> r.valeur) @@ etat.valeur)

\* analyse_complete, "Methode directe"
EtapeDirecte(self, kwargs, etat) ==
    IF etat.statut = "exception" THEN etat
    ELSE IF "energie_utile" \in DOMAIN kwargs /\ "energie_consommee" \in DOMAIN kwargs
         THEN Affecte(etat, "methode_directe",
                      rendement_direct(self, kwargs["energie_utile"],
                                       kwargs["energie_consommee"]))
         ELSE etat

\* Variant: utiliser_pci defaults to False.
EtapeMesureDirectePcs(self, kwargs, etat) ==
    IF etat.statut = "exception" THEN etat
    ELSE IF "puissance_utile" \in DOMAIN kwargs
            /\ "consommation_combustible" \in DOMAIN kwargs
         THEN Affecte(etat, "mesure_directe",
                      rendement_par_mesure_directe(self, kwargs["puissance_utile"],
                          kwargs["consommation_combustible"],
                          Get(kwargs, "type_combustible", "gaz_naturel"),
                          Get(kwargs, "utiliser_pci", FALSE)))
         ELSE etat

\* analyse_complete, "Methode par mesure directe"
EtapeMesureDirecte(self, kwargs, etat) ==
    IF etat.statut = "exception" THEN etat
    ELSE IF "puissance_utile" \in DOMAIN kwargs
            /\ "consommation_combustible" \in DOMAIN kwargs
         THEN Affecte(etat, "mesure_directe",
                      rendement_par_mesure_directe(self, kwargs["puissance_utile"],
                          kwargs["consommation_combustible"],
                          Get(kwargs, "type_combustible", "gaz_naturel"),
                          Get(kwargs, "utiliser_pci", TRUE)))
         ELSE etat

\* Variant: any(...) in place of all(...); a missing key raises KeyError.
EtapePertesAny(self, kwargs, etat) ==
    IF etat.statut = "exception" THEN etat
    ELSE IF \E k \in {"temp_fumees", "temp_air", "co2_percent"} : k \in DOMAIN kwargs
         THEN IF "temp_fumees" \notin DOMAIN kwargs THEN Leve("KeyError", <<"temp_fumees">>)
              ELSE IF "temp_air" \notin DOMAIN kwargs THEN Leve("KeyError", <<"temp_air">>)
              ELSE IF "co2_percent" \notin DOMAIN kwargs
                   THEN Leve("KeyError", <<"co2_percent">>)
              ELSE Affecte(etat, "methode_pertes",
                      rendement_par_pertes(self, kwargs["temp_fumees"],
                          kwargs["temp_air"], kwargs["co2_percent"],
                          Get(kwargs, "type_combustible", "gaz_naturel")))
         ELSE etat

\* analyse_complete, "Methode par pertes"
EtapePertes(self, kwargs, etat) ==
    IF etat.statut = "exception" THEN etat
    ELSE IF \A k \in {"temp_fumees", "temp_air", "co2_percent"} : k \in DOMAIN kwargs
         THEN Affecte(etat, "methode_pertes",
                      rendement_par_pertes(self, kwargs["temp_fumees"],
                          kwargs["temp_air"], kwargs["co2_percent"],
                          Get(kwargs, "type_combustible", "gaz_naturel")))
         ELSE etat

\* analyse_complete(self, **kwargs)
analyse_complete(self, kwargs) ==
    EtapePertes(self, kwargs,
        EtapeMesureDirecte(self, kwargs,
            EtapeDirecte(self, kwargs, Ok(<<>>))))

----------------------------------------------------------------------------
(* Inputs *)

MaxEnergie == 2
MaxPuissance == 1
MaxConsommation == 1
MaxCo2 == 2

\* energie_utile, energie_consommee (kWh): -50, 0, 50, 100, ...
Energies == {Entier(50 * k) : k \in -1..MaxEnergie}
\* puissance_utile (kW): 0, 20, ...
Puissances == {Entier(20 * k) : k \in 0..MaxPuissance}
\* consommation_combustible (m3/h, kg/h): -2.5, 0, 2.5, ...
Consommations == {R(5 * k, 2) : k \in -1..MaxConsommation}
\* temp_fumees, temp_air (degrees C)
Temperatures == {Entier(20), Entier(180)}
\* co2_percent: -5, 0, 5, 10, ...
TauxCo2 == {Entier(5 * k) : k \in -1..MaxCo2}
\* type_combustible: the four fuels of the tables and two strings that are not
Combustibles == {"gaz_naturel", "fuel_domestique", "propane", "bois", "charbon", "Gaz_Naturel"}

Restreint(f, S) == [k \in S |-> f[k]]

Cles ==
    {"energie_utile", "energie_consommee", "puissance_utile",
     "consommation_combustible", "type_combustible", "utiliser_pci",
     "temp_fumees", "temp_air", "co2_percent"}

\* The keyword arguments of analyse_complete: any subset of the nine names,
\* each present name with one of its values.
ValeursKwargs ==
    [energie_utile : {Entier(85)},
     energie_consommee : {Entier(0), Entier(100)},
     puissance_utile : {Entier(20)},
     consommation_combustible : {Entier(0), R(5, 2)},
     type_combustible : {"gaz_naturel", "bois", "charbon"},
     utiliser_pci : BOOLEAN,
     temp_fumees : {Entier(180)},
     temp_air : {Entier(20)},
     co2_percent : {Entier(0), Entier(10)}]

Kwargs == {Restreint(f, S) : f \in ValeursKwargs, S \in SUBSET Cles}

Appel(op, args) == [op |-> op, args |-> args]

AppelsDirect == {Appel("rendement_direct", <<u, c>>) : u \in Energies, c \in Energies}
AppelsMesureDirecte ==
    {Appel("rendement_par_mesure_directe", <<p, c, t, b>>) :
        p \in Puissances, c \in Consommations, t \in Combustibles, b \in BOOLEAN}
AppelsPertes ==
    {Appel("rendement_par_pertes", <<tf, ta, co2, t>>) :
        tf \in Temperatures, ta \in Temperatures, co2 \in TauxCo2, t \in Combustibles}
AppelsAnalyse == {Appel("analyse_complete", kw) : kw \in Kwargs}

Appels == AppelsDirect \cup AppelsMesureDirecte \cup AppelsPertes \cup AppelsAnalyse

\* The calls of the call sequences: the nominal values and the failing ones,
\* and for analyse_complete whole groups of inputs.
GroupesCles ==
    {{"energie_utile", "energie_consommee"},
     {"puissance_utile", "consommation_combustible"},
     {"temp_fumees", "temp_air", "co2_percent"},
     {"type_combustible"}, {"utiliser_pci"}}

AppelsSuite ==
    {a \in AppelsDirect : a.args[1] = Entier(50) /\ RLeq(Entier(0), a.args[2])}
    \cup {a \in AppelsMesureDirecte :
             /\ a.args[1] = Entier(20) /\ RLeq(Entier(0), a.args[2])
             /\ a.args[3] \in {"gaz_naturel", "bois", "charbon"}}
    \cup {a \in AppelsPertes :
             /\ a.args[1] = Entier(180) /\ a.args[2] = Entier(20)
             /\ a.args[3] \in {Entier(0), Entier(10)}
             /\ a.args[4] \in {"gaz_naturel", "bois", "charbon"}}
    \cup {a \in AppelsAnalyse :
             /\ \E G \in SUBSET GroupesCles : DOMAIN a.args = UNION G
             /\ "utiliser_pci" \in DOMAIN a.args => a.args["utiliser_pci"] = FALSE
             /\ "co2_percent" \in DOMAIN a.args => a.args["co2_percent"] = Entier(10)
             /\ "energie_consommee" \in DOMAIN a.args
                   => a.args["energie_consommee"] = Entier(100)
             /\ "type_combustible" \in DOMAIN a.args
                   => a.args["type_combustible"] # "bois"}

----------------------------------------------------------------------------
(* The calculator and its caller *)

\* Two calls of the same operation with the same arguments
MemeAppel(a, b) == a.op = b.op /\ a.args = b.args

Termine == resultat.statut \in {"ok", "exception"}

Init ==
    /\ nom_combustible = TableCombustibles
    /\ appel \in Appels
    /\ resultat = EnAttente
    /\ memo = Aucun

InitSuite ==
    /\ nom_combustible = TableCombustibles
    /\ appel \in AppelsSuite
    /\ resultat = EnAttente
    /\ memo = Aucun

RendementDirect ==
    /\ appel.op = "rendement_direct"
    /\ resultat.statut = "en_attente"
    /\ resultat' = rendement_direct(nom_combustible, appel.args[1], appel.args[2])
    /\ UNCHANGED <<nom_combustible, appel, memo>>

\* Variant: the call stores the heating value it selected as the fuel's PCI.
RendementParMesureDirecteAvecEffet ==
    /\ appel.op = "rendement_par_mesure_directe"
    /\ resultat.statut = "en_attente"
    /\ resultat' = rendement_par_mesure_directe(nom_combustible, appel.args[1],
                       appel.args[2], appel.args[3], appel.args[4])
    /\ nom_combustible' =
           IF appel.args[3] \in DOMAIN nom_combustible
           THEN [nom_combustible EXCEPT ![appel.args[3]].pci =
                    nom_combustible[appel.args[3]][ClePouvoirCalorifique(appel.args[4])]]
           ELSE nom_combustible
    /\ UNCHANGED <<appel, memo>>

RendementParMesureDirecte ==
    /\ appel.op = "rendement_par_mesure_directe"
    /\ resultat.statut = "en_attente"
    /\ resultat' = rendement_par_mesure_directe(nom_combustible, appel.args[1],
                       appel.args[2], appel.args[3], appel.args[4])
    /\ UNCHANGED <<nom_combustible, appel, memo>>

RendementParPertes ==
    /\ appel.op = "rendement_par_pertes"
    /\ resultat.statut = "en_attente"
    /\ resultat' = rendement_par_pertes(nom_combustible, appel.args[1],
                       appel.args[2], appel.args[3], appel.args[4])
    /\ UNCHANGED <<nom_combustible, appel, memo>>

AnalyseComplete ==
    /\ appel.op = "analyse_complete"
    /\ resultat.statut = "en_attente"
    /\ resultat' = analyse_complete(nom_combustible, appel.args)
    /\ UNCHANGED <<nom_combustible, appel, memo>>

\* The caller makes its next call. memo is a history variable: the finished call
\* and its outcome may be noted, and a noted call records in "entre" whether
\* a different call was made since.
NouvelAppel ==
    /\ Termine
    /\ appel' \in AppelsSuite
    /\ resultat' = EnAttente
    /\ memo' \in {IF memo.statut = "note"
                   THEN [memo EXCEPT !.entre = memo.entre \/ ~MemeAppel(memo.appel, appel)]
                   ELSE memo,
                  [statut |-> "note", appel |-> appel, resultat |-> resultat,
                   entre |-> FALSE]}
    /\ UNCHANGED nom_combustible

Next ==
    \/ RendementDirect
    \/ RendementParMesureDirecte
    \/ RendementParPertes
    \/ AnalyseComplete

NextSuite ==
    \/ RendementDirect
    \/ RendementParMesureDirecte
    \/ RendementParPertes
    \/ AnalyseComplete
    \/ NouvelAppel

Spec == Init /\ [][Next]_vars

SpecSuite == InitSuite /\ [][NextSuite]_vars

----------------------------------------------------------------------------
(* The error kinds of the specification, as the exceptions the code raises *)

InvalidArgument(r) ==
    /\ r.statut = "exception"
    /\ r.type = "ValueError"
    /\ r.message \in {<<"L'energie consommee doit etre positive">>,
                      <<"Le taux de CO2 doit etre positif">>}

UnknownFuel(r) ==
    /\ r.statut = "exception"
    /\ r.type = "ValueError"
    /\ Len(r.message) = 2
    /\ r.message[1] = "Combustible non reconnu: "

\* natural_gas, heating_oil, propane, wood
CombustiblesReconnus == {"gaz_naturel", "fuel_domestique", "propane", "bois"}

\* What analyse_complete is specified to run on the inputs kw
DirectDeclenche(kw) == {"energie_utile", "energie_consommee"} \subseteq DOMAIN kw
MesureDeclenchee(kw) == {"puissance_utile", "consommation_combustible"} \subseteq DOMAIN kw
PertesDeclenchees(kw) == {"temp_fumees", "temp_air", "co2_percent"} \subseteq DOMAIN kw
TypeOuDefaut(kw) ==
    IF "type_combustible" \in DOMAIN kw THEN kw["type_combustible"] ELSE "gaz_naturel"
PciOuDefaut(kw) == IF "utiliser_pci" \in DOMAIN kw THEN kw["utiliser_pci"] ELSE TRUE
AppelDirect(kw) ==
    rendement_direct(nom_combustible, kw["energie_utile"], kw["energie_consommee"])
AppelMesure(kw) ==
    rendement_par_mesure_directe(nom_combustible, kw["puissance_utile"], kw["consommation_combustible"], TypeOuDefaut(kw), PciOuDefaut(kw))
AppelPertes(kw) ==
    rendement_par_pertes(nom_combustible, kw["temp_fumees"], kw["temp_air"], kw["co2_percent"], TypeOuDefaut(kw))
\* The outcomes of the triggered methods, in the order they are run
Declenches(kw) ==
    (IF DirectDeclenche(kw) THEN <<AppelDirect(kw)>> ELSE <<>>)
    \o (IF MesureDeclenchee(kw) THEN <<AppelMesure(kw)>> ELSE <<>>)
    \o (IF PertesDeclenchees(kw) THEN <<AppelPertes(kw)>> ELSE <<>>)
ClesAttendues(kw) ==
    {k \in {"methode_directe"} : DirectDeclenche(kw)}
    \cup {k \in {"mesure_directe"} : MesureDeclenchee(kw)}
    \cup {k \in {"methode_pertes"} : PertesDeclenchees(kw)}

AnalyseTerminee == appel.op = "analyse_complete" /\ Termine

----------------------------------------------------------------------------
(* C1 *)

\* C1: analyse_complete, when no triggered method fails, returns a mapping whose
\* keys are exactly methode_directe iff energie_utile and energie_consommee are
\* both present, mesure_directe iff puissance_utile and consommation_combustible
\* are, methode_pertes iff temp_fumees, temp_air and co2_percent all are; a
\* method with only part of its inputs is left out without any error, whatever
\* the values of the inputs that are present.
C1_ClesDuResultat ==
    AnalyseTerminee =>
        LET kw == appel.args
            d  == Declenches(kw)
        IN  (\A i \in 1..Len(d) : d[i].statut = "ok")
                => /\ resultat.statut = "ok"
                   /\ DOMAIN resultat.valeur = ClesAttendues(kw)

\* co2_percent = 0 without the temperatures, an unrecognized fuel, and only the
\* direct method's inputs complete: the mapping holds the direct entry alone.
C1_Temoin ==
    /\ AnalyseTerminee
    /\ DOMAIN appel.args =
           {"energie_utile", "energie_consommee", "co2_percent", "type_combustible",
            "consommation_combustible"}
    /\ appel.args["co2_percent"] = Entier(0)
    /\ appel.args["type_combustible"] = "charbon"
    /\ resultat.statut = "ok"
    /\ DOMAIN resultat.valeur = {"methode_directe"}

----------------------------------------------------------------------------
(* C2 *)

\* C2: analyse_complete propagates a failure as it is: when a triggered method
\* fails with InvalidArgument or UnknownFuel, the call fails, it returns no
\* mapping, and its error is the very error of the first triggered method that
\* fails (the only one that is run to its failure).
C2_Propagation ==
    AnalyseTerminee =>
        LET kw == appel.args
            d  == Declenches(kw)
            echecs == {i \in 1..Len(d) : d[i].statut = "exception"}
        IN  (\E i \in echecs : InvalidArgument(d[i]) \/ UnknownFuel(d[i]))
                => /\ resultat.statut = "exception"
                   /\ \E i \in echecs :
                          /\ \A j \in echecs : i <= j
                          /\ resultat = d[i]

\* Valid direct inputs with both temperatures and co2_percent = 0: the call
\* fails with the loss method's InvalidArgument.
C2_Temoin ==
    /\ AnalyseTerminee
    /\ DirectDeclenche(appel.args)
    /\ PertesDeclenchees(appel.args)
    /\ ~MesureDeclenchee(appel.args)
    /\ AppelDirect(appel.args).statut = "ok"
    /\ appel.args["co2_percent"] = Entier(0)
    /\ InvalidArgument(resultat)

----------------------------------------------------------------------------
(* C3 *)

\* C3: every entry of the mapping analyse_complete returns is what the
\* corresponding method returns when called with the same arguments, with
\* type_combustible = gaz_naturel and utiliser_pci = True when absent; with the
\* inputs of all three methods the mapping has exactly three entries.
C3_EntreesEgales ==
    (AnalyseTerminee /\ resultat.statut = "ok") =>
        LET kw == appel.args
            m  == resultat.valeur
        IN  /\ "methode_directe" \in DOMAIN m
                => Ok(m["methode_directe"]) = AppelDirect(kw)
            /\ "mesure_directe" \in DOMAIN m
                => Ok(m["mesure_directe"]) = AppelMesure(kw)
            /\ "methode_pertes" \in DOMAIN m
                => Ok(m["methode_pertes"]) = AppelPertes(kw)
            /\ (DirectDeclenche(kw) /\ MesureDeclenchee(kw) /\ PertesDeclenchees(kw))
                => DOMAIN m = {"methode_directe", "mesure_directe", "methode_pertes"}

\* The inputs of the three methods without type_combustible and utiliser_pci:
\* three entries, computed with the defaults.
C3_Temoin ==
    /\ AnalyseTerminee
    /\ DOMAIN appel.args = Cles \ {"type_combustible", "utiliser_pci"}
    /\ resultat.statut = "ok"
    /\ Cardinality(DOMAIN resultat.valeur) = 3
    /\ resultat.valeur["mesure_directe"].pouvoir_calorifique_utilise[1] = "PCI"

----------------------------------------------------------------------------
(* C4 *)

\* C4: rendement_direct fails with InvalidArgument for every energie_consommee
\* <= 0, whatever energie_utile, and rendement_par_pertes with a recognized fuel
\* fails with InvalidArgument for every co2_percent <= 0; with energie_consommee
\* > 0, respectively co2_percent > 0 and a recognized fuel, the call does not fail.
C4_ArgumentInvalide ==
    Termine =>
        /\ appel.op = "rendement_direct"
            => IF RLeq(appel.args[2], Entier(0))
               THEN InvalidArgument(resultat)
               ELSE resultat.statut = "ok"
        /\ (appel.op = "rendement_par_pertes" /\ appel.args[4] \in CombustiblesReconnus)
            => IF RLeq(appel.args[3], Entier(0))
               THEN InvalidArgument(resultat)
               ELSE resultat.statut = "ok"

\* rendement_direct with energie_consommee = 0 has failed with InvalidArgument.
C4_Temoin ==
    /\ Termine
    /\ appel.op = "rendement_direct"
    /\ appel.args[2] = Entier(0)
    /\ RLt(appel.args[1], Entier(0))
    /\ InvalidArgument(resultat)

----------------------------------------------------------------------------
(* C5 *)

\* C5: rendement_par_mesure_directe and rendement_par_pertes both fail with
\* UnknownFuel whenever type_combustible is not one of gaz_naturel,
\* fuel_domestique, propane, bois, whatever the numeric arguments; for each of
\* these four fuels neither fails with UnknownFuel.
C5_CombustibleInconnu ==
    Termine =>
        /\ appel.op = "rendement_par_mesure_directe"
            => (UnknownFuel(resultat) <=> appel.args[3] \notin CombustiblesReconnus)
        /\ appel.op = "rendement_par_pertes"
            => (UnknownFuel(resultat) <=> appel.args[4] \notin CombustiblesReconnus)

\* rendement_par_pertes with an unrecognized fuel and co2_percent = 0 has failed
\* with UnknownFuel.
C5_Temoin ==
    /\ Termine
    /\ appel.op = "rendement_par_pertes"
    /\ appel.args[3] = Entier(0)
    /\ appel.args[4] = "charbon"
    /\ UnknownFuel(resultat)
    /\ resultat.message[2] = "charbon"

----------------------------------------------------------------------------
(* C6 *)

\* C6: the only precondition of rendement_par_mesure_directe is a recognized
\* fuel: with one, for either utiliser_pci and any numeric puissance_utile and
\* consommation_combustible (0 included) it returns a record {rendement,
\* puissance_consommee, pouvoir_calorifique_utilise}; its only failure is
\* UnknownFuel, and every failure of any of the four operations is an
\* InvalidArgument or an UnknownFuel.
C6_SeulePrecondition ==
    Termine =>
        /\ (appel.op = "rendement_par_mesure_directe"
                /\ appel.args[3] \in CombustiblesReconnus)
            => /\ resultat.statut = "ok"
               /\ DOMAIN resultat.valeur =
                      {"rendement", "puissance_consommee", "pouvoir_calorifique_utilise"}
        /\ (appel.op = "rendement_par_mesure_directe" /\ resultat.statut = "exception")
            => UnknownFuel(resultat)
        /\ resultat.statut = "exception"
            => (InvalidArgument(resultat) \/ UnknownFuel(resultat))

----------------------------------------------------------------------------
(* C7 *)

\* C7: no operation changes state: after any sequence of calls, successful or
\* failing, nom_combustible holds the values __init__ gave it, and a call made
\* again with the same inputs has the same outcome (result or error) as before,
\* whatever was called in between.
C7_SansEffet ==
    /\ nom_combustible = TableCombustibles
    /\ (memo.statut = "note" /\ Termine /\ MemeAppel(memo.appel, appel))
        => resultat = memo.resultat

\* A noted call of rendement_par_mesure_directe is made again after a different
\* call and has finished.
C7_Temoin ==
    /\ memo.statut = "note"
    /\ memo.entre
    /\ Termine
    /\ MemeAppel(memo.appel, appel)
    /\ appel.op = "rendement_par_mesure_directe"
    /\ resultat.statut = "ok"

----------------------------------------------------------------------------
(* C8 *)

\* A1 and A2 as the specification lists them per fuel
CoefficientsSiegert(t) ==
    CASE t = "gaz_naturel"     -> <<R(66, 100), R(9, 1000)>>
      [] t = "fuel_domestique" -> <<R(68, 100), R(7, 1000)>>
      [] t = "propane"         -> <<R(63, 100), R(8, 1000)>>
      [] t = "bois"            -> <<R(65, 100), R(10, 1000)>>

\* C8: rendement_par_pertes, for a recognized fuel and co2_percent > 0, returns
\* ecart_temperature = temp_fumees - temp_air, pertes_fumees = (A1 *
\* ecart_temperature / co2_percent) + (A2 * ecart_temperature) with that fuel's
\* A1 and A2, and rendement = 100 - pertes_fumees; a negative ecart_temperature
\* is not rejected and the rendement, not clamped, then exceeds 100. For
\* (180, 20, 10, gaz_naturel): 160, 12.0 and 88.0.
C8_MethodeDesPertes ==
    (/\ Termine
     /\ appel.op = "rendement_par_pertes"
     /\ appel.args[4] \in CombustiblesReconnus
     /\ RLt(Entier(0), appel.args[3])) =>
        LET tf  == appel.args[1]
            ta  == appel.args[2]
            co2 == appel.args[3]
            A   == CoefficientsSiegert(appel.args[4])
            dt  == RSub(tf, ta)
            v   == resultat.valeur
        IN  /\ resultat.statut = "ok"
            /\ v.ecart_temperature = dt
            /\ v.pertes_fumees = RAdd(RDiv(RMul(A[1], dt), co2), RMul(A[2], dt))
            /\ v.rendement = RSub(Entier(100), v.pertes_fumees)
            /\ RLt(dt, Entier(0)) => RLt(Entier(100), v.rendement)
            /\ (tf = Entier(180) /\ ta = Entier(20) /\ co2 = Entier(10)
                    /\ appel.args[4] = "gaz_naturel")
                => /\ v.ecart_temperature = Entier(160)
                   /\ v.pertes_fumees = Entier(12)
                   /\ v.rendement = Entier(88)

\* Flue gas colder than the air: the call has returned a rendement above 100.
C8_Temoin ==
    /\ Termine
    /\ appel.op = "rendement_par_pertes"
    /\ appel.args[4] = "bois"
    /\ RLt(appel.args[1], appel.args[2])
    /\ resultat.statut = "ok"
    /\ RLt(Entier(100), resultat.valeur.rendement)

----------------------------------------------------------------------------
(* C9 *)

\* The number a printed decimal expansion denotes
RECURSIVE ValeurDecimales(_)
ValeurDecimales(d) ==
    IF d = <<>> THEN Entier(0)
    ELSE RDiv(RAdd(Entier(Head(d)), ValeurDecimales(Tail(d))), Entier(10))

ValeurRepr(x) == RAdd(Entier(x.entier), ValeurDecimales(x.decimales))

\* C9: rendement_par_mesure_directe, for a recognized fuel and a nonzero
\* consommation_combustible, uses that fuel's PCI (the lower heating value) when
\* utiliser_pci is true and its PCS (the higher one) when it is false, returns
\* puissance_consommee = (consommation_combustible * heating value) / 3.6 and
\* rendement = (puissance_utile / puissance_consommee) * 100, and names in
\* pouvoir_calorifique_utilise the heating value used (PCI or PCS, and its
\* number). For (20, 2.5, gaz_naturel, True): 35.17, about 24.42 and about 81.9.
C9_MesureDirecte ==
    (/\ Termine
     /\ appel.op = "rendement_par_mesure_directe"
     /\ appel.args[3] \in CombustiblesReconnus
     /\ ~RZero(appel.args[2])) =>
        LET pu   == appel.args[1]
            c    == appel.args[2]
            pc   == nom_combustible[appel.args[3]]
            pci  == appel.args[4]
            h    == IF pci THEN pc.pci ELSE pc.pcs
            v    == resultat.valeur
        IN  /\ resultat.statut = "ok"
            /\ RLt(pc.pci, pc.pcs)
            /\ v.puissance_consommee = RDiv(RMul(c, h), R(36, 10))
            /\ v.rendement = RMul(RDiv(pu, v.puissance_consommee), Entier(100))
            /\ v.pouvoir_calorifique_utilise[1] = (IF pci THEN "PCI" ELSE "PCS")
            /\ ValeurRepr(v.pouvoir_calorifique_utilise[3]) = h
            /\ (pu = Entier(20) /\ c = R(5, 2) /\ appel.args[3] = "gaz_naturel" /\ pci)
                => /\ h = R(3517, 100)
                   /\ v.pouvoir_calorifique_utilise[3] =
                          [entier |-> 35, decimales |-> <<1, 7>>]
                   /\ RLeq(R(24415, 1000), v.puissance_consommee)
                   /\ RLt(v.puissance_consommee, R(24425, 1000))
                   /\ RLeq(R(8185, 100), v.rendement)
                   /\ RLt(v.rendement, R(8195, 100))

\* The example call with the higher heating value of wood has returned.
C9_Temoin ==
    /\ Termine
    /\ appel.op = "rendement_par_mesure_directe"
    /\ appel.args = <<Entier(20), R(5, 2), "bois", FALSE>>
    /\ resultat.statut = "ok"
    /\ resultat.valeur.pouvoir_calorifique_utilise =
           <<"PCS", ": ", [entier |-> 18, decimales |-> <<5>>], " MJ/unite">>

----------------------------------------------------------------------------
(* C10 *)

\* C10: rendement_direct(u, c) returns 100 * u / c for every energie_utile
\* u >= 0 and energie_consommee c > 0, without clamping: the result exceeds 100
\* whenever u > c.
C10_RendementDirect ==
    (/\ Termine
     /\ appel.op = "rendement_direct"
     /\ RLeq(Entier(0), appel.args[1])
     /\ RLt(Entier(0), appel.args[2])) =>
        /\ resultat = Ok(RDiv(RMul(Entier(100), appel.args[1]), appel.args[2]))
        /\ RLt(appel.args[2], appel.args[1]) => RLt(Entier(100), resultat.valeur)

\* rendement_direct(100, 50) has returned 200.
C10_Temoin ==
    /\ Termine
    /\ appel.op = "rendement_direct"
    /\ appel.args = <<Entier(100), Entier(50)>>
    /\ resultat = Ok(Entier(200))

====
